---- MODULE Spec2Model ----
(***************************************************************************)
(* pg-transactions: DBConnection (connection handle and factory) and       *)
(* DBTransaction (transaction handle) over the node-postgres pool.         *)
(*                                                                         *)
(* JavaScript runs every function and every continuation to completion on *)
(* one thread, so each action below is one caller's call or one            *)
(* continuation invoked by pg (pool checkout, raw client statement).       *)
(***************************************************************************)
EXTENDS Integers, Sequences, FiniteSets, TLC

(* ------------------------------ bounds --------------------------------- *)
NumHandles == 2      \* checkouts (get / begin calls) in a behaviour
MaxCalls == 5        \* calls the callers make in a behaviour

Handles == 1..NumHandles

(* --------------------------- program constants ------------------------- *)
DEFAULT_CONNECTION_POOL_SIZE == 100

NoErr == "null"                      \* err === null: the step succeeded
Errs == {"E1", "E2"}                 \* Error objects of the pool or the client
Outcomes == Errs \cup {NoErr}

Unset == <<"undefined">>             \* process.env.X is undefined
Digits == <<"0", "1", "2", "3", "4", "5", "6", "7", "8", "9">>
NaN == [nan |-> TRUE, val |-> 0]

(* The override of PGBOUNCER_MAX_CLIENT_CONN of the tests.                 *)
EnvValues == {<<"7">>}

VARIABLES
  env,           \* process.env.PGBOUNCER_MAX_CLIENT_CONN
  poolSize,      \* pg.defaults.poolSize
  utilization,   \* pool.getPoolSize() of the pg pool
  sinkFails,     \* whether a call of the Metrics sink throws
  via,           \* via[h]: "none" | "get" | "begin", the factory call made
  phase,         \* phase[h]: "idle" | "connecting" | "failed" | "open"
  released,      \* released[h]: DBConnection._released
  releaseCalls,  \* releaseCalls[h]: dispose flags releaseFn was invoked with
  pending,       \* pending[h]: statements queued on the raw client
  sent,          \* sent[h]: number of statements handed to client.query
  sess,          \* sess[h]: the database session of h's raw client
  rows,          \* rows[h]: the row written through h, as the database has it
  asked,         \* asked[h]: the terminal calls the caller made on h
  delivered,     \* delivered[h]: "none" | "conn" | "txn", what the caller holds
  calls,         \* number of calls the callers have made so far
  reqSize,       \* reqSize[h]: pg.defaults.poolSize when pg.connect was called
  owed,          \* owed[h]: calls given a callback, less the callbacks run
  base,          \* base[h]: utilization, net of other handles, at get/begin
  last           \* last[h]: the most recent completed step on h, as observed
                 \*          at the moment the caller's callback is due

vars == <<env, poolSize, utilization, sinkFails, via, phase, released,
          releaseCalls, pending, sent, sess, rows, asked, delivered, calls,
          reqSize, owed, base, last>>

(* ------------------------- DBConnection._getPoolSize ------------------- *)
DigitVal(c) == IF \E i \in 1..10 : Digits[i] = c
               THEN (CHOOSE i \in 1..10 : Digits[i] = c) - 1
               ELSE -1

IsSpace(c) == c = " "

RECURSIVE SkipSpace(_)
SkipSpace(s) == IF s # <<>> /\ IsSpace(Head(s)) THEN SkipSpace(Tail(s)) ELSE s

RECURSIVE DigitPrefix(_, _, _)
(* Value of the longest run of decimal digits s starts with; NaN if none. *)
DigitPrefix(s, acc, seen) ==
  IF s # <<>> /\ DigitVal(Head(s)) >= 0
  THEN DigitPrefix(Tail(s), acc * 10 + DigitVal(Head(s)), TRUE)
  ELSE IF seen THEN [nan |-> FALSE, val |-> acc] ELSE NaN

(* String(v) of the value read from process.env.                           *)
toStr(v) == IF v = Unset THEN <<"u", "n", "d", "e", "f", "i", "n", "e", "d">>
            ELSE v

(* parseInt(v, 10): String(v), leading blanks skipped, an optional sign,   *)
(* then the leading digits; NaN when there is no digit.                    *)
parseInt(v) ==
  LET s == SkipSpace(toStr(v))
      neg == s # <<>> /\ Head(s) = "-"
      signed == s # <<>> /\ Head(s) \in {"-", "+"}
      n == DigitPrefix(IF signed THEN Tail(s) ELSE s, 0, FALSE)
  IN IF n.nan THEN NaN ELSE IF neg THEN [n EXCEPT !.val = 0 - @] ELSE n

(* NaN > 0 is false.                                                       *)
getPoolSize(v) ==
  LET defaultPoolSize == parseInt(v)
  IN IF ~defaultPoolSize.nan /\ defaultPoolSize.val > 0
     THEN defaultPoolSize.val
     ELSE DEFAULT_CONNECTION_POOL_SIZE

(* _setPoolSize that keeps the size once it is set.                        *)
setPoolSizeCached(v) == IF poolSize # 0 THEN poolSize ELSE getPoolSize(v)

setPoolSize(v) == getPoolSize(v)

(* The synchronous part of DBConnection.get: the pool size is set, then    *)
(* pg.connect is called with that size in effect.                          *)
getCall(v) ==
  LET size == setPoolSize(v)
  IN [poolSize |-> size, req |-> size]

(* ------------------------------ the pool ------------------------------- *)
(* A handle holds a pooled connection from its checkout until the pool's   *)
(* release callback is invoked for it.                                     *)
Held(h) == phase[h] = "open" /\ releaseCalls[h] = <<>>

OthersHeld(h) == Cardinality({g \in Handles \ {h} : Held(g)})

(* The rows every session can read.                                        *)
SeenByAll == {g \in Handles : rows[g] \in {"committed", "auto"}}

(* What one call or continuation on handle h works on: the handle's        *)
(* fields and the pool's count, and what it produces: the keys handed to   *)
(* the Metrics sink, the statements handed to the raw client, the          *)
(* arguments it passes to the callback it was given (arg) and the          *)
(* invocations of the caller's callback (cbs). Once an exception is       *)
(* thrown the rest of the continuation does not run.                       *)
St(h) == [released |-> released[h], releaseCalls |-> releaseCalls[h],
          util |-> utilization, others |-> OthersHeld(h), metrics |-> {},
          stmts |-> <<>>,
          arg |-> [called |-> FALSE, err |-> NoErr, val |-> "none"],
          cbs |-> <<>>, sinkFails |-> sinkFails, thrown |-> FALSE,
          sess |-> sess[h], row |-> rows[h], seen |-> SeenByAll \ {h},
          me |-> h, result |-> {}]

(* pg.connect checks a connection out of the pool unless it fails.         *)
connect(s, err) ==
  IF err = NoErr THEN [s EXCEPT !.util = @ + 1, !.sess = "idle"] ELSE s

(* release(dispose) handed out by pg.connect: the connection leaves the    *)
(* checked-out set of the pool.                                            *)
(* A destroyed client ends its session, and the database discards what    *)
(* the session had not committed.                                          *)
closeSession(s) ==
  [s EXCEPT !.sess = "closed",
            !.row = IF @ = "local" THEN "discarded" ELSE @]

releaseFn(s, dispose) ==
  IF s.thrown THEN s
  ELSE LET s1 == [s EXCEPT !.releaseCalls = Append(@, dispose),
                           !.util = @ - 1]
       IN IF dispose THEN closeSession(s1) ELSE s1

(* ---------------------- the database behind a client ------------------- *)
(* The rows a statement of this session reads: the committed ones and the  *)
(* session's own.                                                          *)
Visible(s) ==
  s.seen \cup (IF s.row \in {"local", "committed", "auto"} THEN {s.me}
              ELSE {})

(* The database runs a statement of h's session and reports out. Outside   *)
(* a transaction a write commits at once. An error inside a transaction    *)
(* aborts it; applied tells whether a COMMIT whose reply was an error had  *)
(* taken effect. COMMIT of an aborted transaction rolls back.              *)
exec(s, sql, out, applied) ==
  IF s.sess \in {"none", "closed"} THEN s
  ELSE IF out # NoErr
  THEN IF s.sess = "txn" /\ sql = "COMMIT" /\ applied
       THEN [s EXCEPT !.sess = "idle",
                      !.row = IF @ = "local" THEN "committed" ELSE @]
       ELSE [s EXCEPT !.sess = IF @ = "txn" THEN "aborted" ELSE @]
  ELSE CASE sql = "BEGIN" ->
              [s EXCEPT !.sess = IF @ = "idle" THEN "txn" ELSE @]
         [] sql = "INSERT" ->
              [s EXCEPT !.row = IF @ = "committed" THEN @
                                ELSE IF s.sess = "idle" THEN "auto"
                                ELSE IF s.sess = "txn" THEN "local"
                                ELSE @]
         [] sql = "SELECT" ->
              [s EXCEPT !.result = IF s.sess = "aborted" THEN {}
                                   ELSE Visible(s)]
         [] sql = "COMMIT" ->
              [s EXCEPT !.sess = "idle",
                        !.row = IF @ = "local"
                                THEN (IF s.sess = "txn" THEN "committed"
                                      ELSE "discarded")
                                ELSE @]
         [] sql = "ROLLBACK" ->
              [s EXCEPT !.sess = "idle",
                        !.row = IF @ = "local" THEN "discarded" ELSE @]
         [] OTHER -> s

(* ------------------------------- Metrics ------------------------------- *)
(* A call of the sink: the key is recorded, or the sink throws.            *)
emit(s, key) ==
  IF s.thrown THEN s
  ELSE IF s.sinkFails THEN [s EXCEPT !.thrown = TRUE]
  ELSE [s EXCEPT !.metrics = @ \cup {key}]

measure(s, key) == emit(s, key)

increment(s, key) == emit(s, key)

timing(s, key) == emit(s, key)

(* try { measure(key, _getPoolUtilization()) } catch {}                    *)
tryMeasure(s, key) ==
  IF s.thrown \/ s.sinkFails THEN s ELSE measure(s, key)

(* The caller's callback runs: what it is given and what it can observe,   *)
(* net being the pool utilization without the connections of other handles *)
callCb(s, err, val) ==
  IF s.thrown THEN s
  ELSE [s EXCEPT !.cbs = Append(@, [err |-> err, val |-> val,
                                    rows |-> IF val = "res" THEN s.result
                                             ELSE {},
                                    released |-> s.released,
                                    releaseCalls |-> s.releaseCalls,
                                    net |-> s.util - s.others])]

(* cb(err, val) of a function that was handed a callback.                  *)
pass(s, err, val) ==
  IF s.thrown THEN s
  ELSE [s EXCEPT !.arg = [called |-> TRUE, err |-> err, val |-> val]]

(* this._released = true                                                   *)
setReleased(s) == IF s.thrown THEN s ELSE [s EXCEPT !.released = TRUE]

(* --------------------- DBConnection.prototype.release ------------------ *)
(* release that forgets to set _released.                                  *)
releaseFlagless(s, dispose) ==
  IF s.released
  THEN s
  ELSE measure(releaseFn(s, dispose), "db.txn_conn_pool.release.count")

(* release without the _released guard.                                    *)
releaseUnguarded(s, dispose) ==
  measure(setReleased(releaseFn(s, dispose)),
          "db.txn_conn_pool.release.count")

release(s, dispose) ==
  IF s.released
  THEN s
  ELSE measure(setReleased(releaseFn(s, dispose)),
               "db.txn_conn_pool.release.count")

(* ------------- continuation of pg.connect in DBConnection.get ---------- *)
(* get that wraps the client in a handle without looking at err.           *)
getCbHandle(s, err) ==
  LET s1 == tryMeasure(s, "db.txn_conn_pool.count")
      s2 == measure(s1, "db.txn_conn_pool.total")
      s3 == increment(s2, "db.txn_conn_pool.get")
      s4 == timing(s3, "db.txn_conn_pool.get.latency")
  IN pass(s4, err, "conn")

getCb(s, err) ==
  IF err # NoErr
  THEN pass(s, err, "none")
  ELSE LET s1 == tryMeasure(s, "db.txn_conn_pool.count")
           s2 == measure(s1, "db.txn_conn_pool.total")
           s3 == increment(s2, "db.txn_conn_pool.get")
           s4 == timing(s3, "db.txn_conn_pool.get.latency")
       IN pass(s4, err, "conn")

(* The arguments of query before the callback: (sql) or (sql, values).     *)
Params == {<<"p">>}

QueryCalls == {<<"SELECT">>} \cup {<<"SELECT", v>> : v \in Params}

(* DBConnection.prototype.query(sql, values, cb): without values the       *)
(* callback is taken from their place and the values are [].               *)
connQuery(call) ==
  [sql |-> call[1], values |-> IF Len(call) = 1 THEN <<>> ELSE call[2]]

(* DBTransaction.prototype.query that forwards the statement only.        *)
txnQuerySqlOnly(call) == connQuery(<<call[1]>>)

(* DBTransaction.prototype.query: this.conn.query.apply(this.conn,         *)
(* arguments).                                                             *)
txnQuery(call) == connQuery(call)

(* DBConnection.prototype.query hands the statement to the raw client.     *)
query(s, sql) ==
  IF s.thrown THEN s ELSE [s EXCEPT !.stmts = Append(@, sql)]

(* ------- continuation of DBConnection.get in DBConnection.begin -------- *)
(* begin that goes on to BEGIN after it reported a failed checkout.        *)
beginGetCbFallThrough(s, err) ==
  IF err # NoErr
  THEN query(callCb(s, err, "none"), "BEGIN")
  ELSE query(s, "BEGIN")

(* begin that hands out the connection without opening a transaction.      *)
beginGetCbNoTxn(s, err) ==
  IF err # NoErr
  THEN callCb(s, err, "none")
  ELSE query(s, "SELECT")

beginGetCb(s, err) ==
  IF err # NoErr
  THEN callCb(s, err, "none")
  ELSE query(s, "BEGIN")

(* ---- continuation of client.query in DBConnection.prototype.query ----- *)
(* query that releases the connection after every statement.              *)
queryCbAlwaysRelease(s, err) ==
  IF err # NoErr
  THEN pass(release(s, TRUE), err, "none")
  ELSE pass(release(s, TRUE), NoErr, "res")

(* query that sends a statement again when the raw client reports an      *)
(* error.                                                                  *)
queryCbRetry(s, err) ==
  IF err # NoErr
  THEN query(s, "SELECT")
  ELSE pass(s, NoErr, "res")

(* query that throws the error of the raw client.                         *)
queryCbThrow(s, err) ==
  IF err # NoErr
  THEN [release(s, TRUE) EXCEPT !.thrown = TRUE]
  ELSE pass(s, NoErr, "res")

(* query that answers an error with a ROLLBACK on the connection.         *)
queryCbRollback(s, err) ==
  IF err # NoErr
  THEN pass(query(s, "ROLLBACK"), err, "none")
  ELSE pass(s, NoErr, "res")

(* query that returns the connection to the pool on an error.              *)
queryCbPooled(s, err) ==
  IF err # NoErr
  THEN pass(release(s, FALSE), err, "none")
  ELSE pass(s, NoErr, "res")

(* query that leaves the release to its caller.                            *)
queryCbNoRelease(s, err) ==
  IF err # NoErr
  THEN pass(s, err, "none")
  ELSE pass(s, NoErr, "res")

queryCb(s, err) ==
  IF err # NoErr
  THEN pass(release(s, TRUE), err, "none")
  ELSE pass(s, NoErr, "res")

(* ---------- continuation of conn.query('BEGIN') in begin --------------- *)
(* begin that wraps the connection in a transaction whatever BEGIN did.    *)
beginCbAlwaysTxn(s, err) ==
  IF err # NoErr
  THEN callCb(increment(s, "db.txn.begin.error"), err, "txn")
  ELSE callCb(increment(s, "db.txn.begin.success"), NoErr, "txn")

beginCb(s, err) ==
  IF err # NoErr
  THEN callCb(increment(s, "db.txn.begin.error"), err, "none")
  ELSE callCb(increment(s, "db.txn.begin.success"), NoErr, "txn")

(* ---------- continuation of conn.query('COMMIT') in commit ------------- *)
(* commit that never releases.                                             *)
commitCbNoRelease(s, err, hasCb) ==
  IF err # NoErr
  THEN LET s1 == increment(s, "db.txn.commit.error")
       IN IF hasCb THEN callCb(s1, err, "none") ELSE s1
  ELSE LET s1 == increment(s, "db.txn.commit.success")
       IN IF hasCb THEN callCb(s1, NoErr, "none") ELSE s1

(* commit that returns the connection to the pool.                         *)
commitCbPooled(s, err, hasCb) ==
  IF err # NoErr
  THEN LET s1 == increment(s, "db.txn.commit.error")
       IN IF hasCb THEN callCb(s1, err, "none") ELSE s1
  ELSE LET s1 == increment(s, "db.txn.commit.success")
           s2 == release(s1, FALSE)
       IN IF hasCb THEN callCb(s2, NoErr, "none") ELSE s2

(* commit that hits the callback before it releases.                       *)
commitCbLate(s, err, hasCb) ==
  IF err # NoErr
  THEN LET s1 == increment(s, "db.txn.commit.error")
       IN IF hasCb THEN callCb(s1, err, "none") ELSE s1
  ELSE LET s1 == increment(s, "db.txn.commit.success")
           s2 == IF hasCb THEN callCb(s1, NoErr, "none") ELSE s1
       IN release(s2, TRUE)

commitCb(s, err, hasCb) ==
  IF err # NoErr
  THEN LET s1 == increment(s, "db.txn.commit.error")
       IN IF hasCb THEN callCb(s1, err, "none") ELSE s1
  ELSE LET s1 == increment(s, "db.txn.commit.success")
           s2 == release(s1, TRUE)
       IN IF hasCb THEN callCb(s2, NoErr, "none") ELSE s2

(* --------- continuation of conn.query('ROLLBACK') in rollback ---------- *)
(* rollback that returns the connection to the pool.                      *)
rollbackCbPooled(s, err, hasCb) ==
  IF err # NoErr
  THEN LET s1 == increment(s, "db.txn.rollback.error")
       IN IF hasCb THEN callCb(s1, err, "none") ELSE s1
  ELSE LET s1 == increment(s, "db.txn.rollback.success")
           s2 == release(s1, FALSE)
       IN IF hasCb THEN callCb(s2, NoErr, "none") ELSE s2

(* rollback that invokes the pool's release callback itself.              *)
rollbackCbRaw(s, err, hasCb) ==
  IF err # NoErr
  THEN LET s1 == increment(s, "db.txn.rollback.error")
       IN IF hasCb THEN callCb(s1, err, "none") ELSE s1
  ELSE LET s1 == increment(s, "db.txn.rollback.success")
           s2 == setReleased(releaseFn(s1, TRUE))
       IN IF hasCb THEN callCb(s2, NoErr, "none") ELSE s2

(* rollback that never releases.                                           *)
rollbackCbNoRelease(s, err, hasCb) ==
  IF err # NoErr
  THEN LET s1 == increment(s, "db.txn.rollback.error")
       IN IF hasCb THEN callCb(s1, err, "none") ELSE s1
  ELSE LET s1 == increment(s, "db.txn.rollback.success")
       IN IF hasCb THEN callCb(s1, NoErr, "none") ELSE s1

rollbackCb(s, err, hasCb) ==
  IF err # NoErr
  THEN LET s1 == increment(s, "db.txn.rollback.error")
       IN IF hasCb THEN callCb(s1, err, "none") ELSE s1
  ELSE LET s1 == increment(s, "db.txn.rollback.success")
           s2 == release(s1, TRUE)
       IN IF hasCb THEN callCb(s2, NoErr, "none") ELSE s2

(* The record of a completed step on h: the operation, its statement,     *)
(* the outcome the pool or the raw client reported, whether the handle was released        *)
(* before, the caller's callbacks it ran and the handle's state after it.  *)
Obs(h, op, e, out, hasCb, s) ==
  [op |-> op, sql |-> e.sql, values |-> e.values, call |-> e.call,
   out |-> out, hasCb |-> hasCb, was |-> released[h],
   relWas |-> Len(releaseCalls[h]),
   thrown |-> s.thrown,
   sessWas |-> sess[h], rowWas |-> rows[h],
   cbs |-> s.cbs, metrics |-> s.metrics,
   released |-> s.released, releaseCalls |-> s.releaseCalls]

NoStmt == [sql |-> "none", values |-> <<>>, call |-> <<>>]

NoObs == [op |-> "none", sql |-> "none", values |-> <<>>, call |-> <<>>,
          out |-> NoErr, hasCb |-> FALSE, was |-> FALSE, relWas |-> 0,
          thrown |-> FALSE,
          sessWas |-> "none", rowWas |-> "none",
          cbs |-> <<>>, metrics |-> {}, released |-> FALSE,
          releaseCalls |-> <<>>]

(* The handles the caller's callbacks were given.                          *)
Given(s) == {s.cbs[i].val : i \in 1..Len(s.cbs)} \cap {"conn", "txn"}

RECURSIVE Entries(_, _)
Entries(stmts, op) ==
  IF stmts = <<>> THEN <<>>
  ELSE <<[sql |-> Head(stmts), values |-> <<>>, call |-> <<Head(stmts)>>,
          op |-> op, hasCb |-> TRUE]>>
         \o Entries(Tail(stmts), op)

(* The step's effects on the handle, the pool, the raw client's queue and  *)
(* what the caller holds.                                                  *)
Apply(h, s, op, queue) ==
  /\ released' = [released EXCEPT ![h] = s.released]
  /\ releaseCalls' = [releaseCalls EXCEPT ![h] = s.releaseCalls]
  /\ utilization' = s.util
  /\ pending' = [pending EXCEPT ![h] = queue \o Entries(s.stmts, op)]
  /\ sent' = [sent EXCEPT ![h] = @ + Len(s.stmts)]
  /\ sess' = [sess EXCEPT ![h] = s.sess]
  /\ rows' = [rows EXCEPT ![h] = s.row]
  /\ owed' = [owed EXCEPT ![h] = @ - Len(s.cbs)]
  /\ delivered' = [delivered EXCEPT ![h] =
                     IF Given(s) = {} THEN @ ELSE CHOOSE v \in Given(s) : TRUE]

InitLayer ==
  /\ poolSize = 0          \* not yet set by this layer; get sets it first
  /\ utilization = 0
  /\ via = [h \in Handles |-> "none"]
  /\ phase = [h \in Handles |-> "idle"]
  /\ released = [h \in Handles |-> FALSE]
  /\ releaseCalls = [h \in Handles |-> <<>>]
  /\ pending = [h \in Handles |-> <<>>]
  /\ sent = [h \in Handles |-> 0]
  /\ sess = [h \in Handles |-> "none"]
  /\ rows = [h \in Handles |-> "none"]
  /\ asked = [h \in Handles |-> {}]
  /\ delivered = [h \in Handles |-> "none"]
  /\ calls = 0
  /\ reqSize = [h \in Handles |-> 0]
  /\ owed = [h \in Handles |-> 0]
  /\ base = [h \in Handles |-> 0]
  /\ last = [h \in Handles |-> NoObs]

(* The layer as shipped: the Metrics stub only logs and never throws.      *)
Init ==
  /\ env \in EnvValues
  /\ sinkFails = FALSE
  /\ InitLayer

(* ---------------- DBConnection.get / DBConnection.begin ---------------- *)
(* The synchronous part: the pool size is set, pg.connect is requested.    *)
(* Handles are numbered in the order of their factory calls.               *)
Factory(h, which) ==
  /\ phase[h] = "idle"
  /\ \A g \in Handles : g < h => phase[g] # "idle"
  /\ calls < MaxCalls
  /\ calls' = calls + 1
  /\ poolSize' = getCall(env).poolSize
  /\ reqSize' = [reqSize EXCEPT ![h] = getCall(env).req]
  /\ owed' = [owed EXCEPT ![h] = @ + 1]
  /\ phase' = [phase EXCEPT ![h] = "connecting"]
  /\ via' = [via EXCEPT ![h] = which]
  /\ base' = [base EXCEPT ![h] = utilization - OthersHeld(h)]
  /\ UNCHANGED <<env, utilization, sinkFails, released, releaseCalls,
                 pending, sent, sess, rows, asked, delivered, last>>

Get(h) == Factory(h, "get")

Begin(h) == Factory(h, "begin")

(* pg.connect invokes its continuation, with an error or with a client and *)
(* its release callback; a checkout waits while the pool is exhausted.     *)
ConnectCb(h) ==
  /\ phase[h] = "connecting"
  /\ \E out \in Outcomes :
       /\ out = NoErr => utilization < poolSize
       /\ LET s1 == getCb(connect(St(h), out), out)
              s2 == IF ~s1.arg.called THEN s1
                    ELSE IF via[h] = "get"
                    THEN callCb(s1, s1.arg.err, s1.arg.val)
                    ELSE beginGetCb(s1, s1.arg.err)
          IN /\ Apply(h, s2, "begin", pending[h])
             /\ last' = [last EXCEPT ![h] =
                          Obs(h, IF via[h] = "get" THEN "get" ELSE "begin.get",
                              NoStmt, out, TRUE, s2)]
       /\ phase' = [phase EXCEPT ![h] =
                      IF out = NoErr THEN "open" ELSE "failed"]
  /\ UNCHANGED <<env, poolSize, sinkFails, via, asked, calls, reqSize, base>>

(* ------------------------- the caller's calls -------------------------- *)
(* conn.query, directly or through txn.query, txn.commit and txn.rollback  *)
(* hand their statement to the raw client.                                 *)
Issue(h, call, req, op, hasCb) ==
  /\ calls < MaxCalls
  /\ calls' = calls + 1
  /\ pending' = [pending EXCEPT ![h] =
                   Append(@, [sql |-> req.sql, values |-> req.values,
                              call |-> call, op |-> op, hasCb |-> hasCb])]
  /\ sent' = [sent EXCEPT ![h] = @ + 1]
  /\ asked' = [asked EXCEPT ![h] = @ \cup ({op} \cap {"commit", "rollback"})]
  /\ owed' = [owed EXCEPT ![h] = @ + (IF hasCb THEN 1 ELSE 0)]
  /\ UNCHANGED <<env, poolSize, utilization, sinkFails, via, phase,
                 released, releaseCalls, sess, rows, delivered, reqSize, base,
                 last>>

(* A statement that reads.                                                 *)
Query(h) ==
  /\ delivered[h] \in {"conn", "txn"}
  /\ \E call \in QueryCalls :
       Issue(h, call,
             IF delivered[h] = "txn" THEN txnQuery(call) ELSE connQuery(call),
             "query", TRUE)

(* A statement that writes the row of h.                                   *)
Insert(h) ==
  /\ delivered[h] \in {"conn", "txn"}
  /\ Issue(h, <<"INSERT">>,
           IF delivered[h] = "txn" THEN txnQuery(<<"INSERT">>)
           ELSE connQuery(<<"INSERT">>),
           "query", TRUE)

(* commit that sends ROLLBACK.                                             *)
CommitAsRollback(h) ==
  /\ delivered[h] = "txn"
  /\ \E hasCb \in BOOLEAN : Issue(h, <<"ROLLBACK">>, connQuery(<<"ROLLBACK">>),
                                "commit", hasCb)

Commit(h) ==
  /\ delivered[h] = "txn"
  /\ \E hasCb \in BOOLEAN : Issue(h, <<"COMMIT">>, connQuery(<<"COMMIT">>),
                                "commit", hasCb)

(* rollback that sends COMMIT.                                             *)
RollbackAsCommit(h) ==
  /\ delivered[h] = "txn"
  /\ \E hasCb \in BOOLEAN : Issue(h, <<"COMMIT">>, connQuery(<<"COMMIT">>),
                                "rollback", hasCb)

Rollback(h) ==
  /\ delivered[h] = "txn"
  /\ \E hasCb \in BOOLEAN : Issue(h, <<"ROLLBACK">>, connQuery(<<"ROLLBACK">>),
                                "rollback", hasCb)

(* conn.release(dispose), on the handle or on txn.conn.                    *)
Release(h) ==
  /\ delivered[h] \in {"conn", "txn"}
  /\ calls < MaxCalls
  /\ calls' = calls + 1
  /\ \E dispose \in BOOLEAN :
       LET s == release(St(h), dispose)
       IN /\ Apply(h, s, "query", pending[h])
          /\ last' = [last EXCEPT ![h] = Obs(h, "release", NoStmt, NoErr, FALSE, s)]
  /\ UNCHANGED <<env, poolSize, sinkFails, via, phase, asked, reqSize, base>>

(* ------------- the raw client completes its oldest statement ----------- *)
(* Only a COMMIT answered with an error may or may not have taken effect.  *)
Fates(sql, out) ==
  IF sql = "COMMIT" /\ out # NoErr THEN BOOLEAN ELSE {FALSE}

ClientCb(h) ==
  /\ pending[h] # <<>>
  /\ \E out \in Outcomes :
     \E applied \in Fates(Head(pending[h]).sql, out) :
       LET e == Head(pending[h])
           s1 == queryCb(exec(St(h), e.sql, out, applied), out)
           s2 == CASE ~s1.arg.called -> s1
                   [] e.op = "begin" -> beginCb(s1, s1.arg.err)
                   [] e.op = "commit" -> commitCb(s1, s1.arg.err, e.hasCb)
                   [] e.op = "rollback" -> rollbackCb(s1, s1.arg.err, e.hasCb)
                   [] OTHER -> callCb(s1, s1.arg.err, s1.arg.val)
       IN /\ Apply(h, s2, "query", Tail(pending[h]))
          /\ last' = [last EXCEPT ![h] = Obs(h, e.op, e, out, e.hasCb, s2)]
  /\ UNCHANGED <<env, poolSize, sinkFails, via, phase, asked, calls, reqSize, base>>

Step(h) ==
  \/ Get(h)
  \/ Begin(h)
  \/ ConnectCb(h)
  \/ Query(h)
  \/ Commit(h)
  \/ Rollback(h)
  \/ Release(h)
  \/ ClientCb(h)

Next == \E h \in Handles : Step(h)

Spec == Init /\ [][Next]_vars

(* A pluggable Metrics sink that may start and stop throwing.              *)
SinkFlip ==
  /\ sinkFails' = ~sinkFails
  /\ UNCHANGED <<env, poolSize, utilization, via, phase, released,
                 releaseCalls, pending, sent, sess, rows, asked, delivered,
                 calls, reqSize, owed, base, last>>

InitSink ==
  /\ env \in EnvValues
  /\ sinkFails \in BOOLEAN
  /\ InitLayer

NextSink == Next \/ SinkFlip

SpecSink == InitSink /\ [][NextSink]_vars

(* The override changes between calls of get; Overrides are the values    *)
(* the environment may hold.                                               *)
Overrides ==
  {Unset, <<>>, <<"7">>, <<"1", "2">>, <<"f", "o", "o">>, <<"0">>,
   <<"-", "3">>, <<"7", "x">>}

SetEnv ==
  /\ env' \in Overrides \ {env}
  /\ UNCHANGED <<poolSize, utilization, sinkFails, via, phase, released,
                 releaseCalls, pending, sent, sess, rows, asked, delivered,
                 calls, reqSize, owed, base, last>>

InitEnv ==
  /\ env \in Overrides
  /\ sinkFails = FALSE
  /\ InitLayer

NextEnv ==
  \/ SetEnv
  \/ \E h \in Handles : Get(h) \/ Begin(h) \/ ConnectCb(h) \/ ClientCb(h)

SpecEnv == InitEnv /\ [][NextEnv]_vars

(* Callers that also write.                                                *)
NextDb == Next \/ \E h \in Handles : Insert(h)

SpecDb == Init /\ [][NextDb]_vars

TypeOK ==
  /\ env \in Overrides
  /\ utilization \in 0..NumHandles
  /\ calls \in 0..MaxCalls
  /\ \A h \in Handles :
       /\ phase[h] \in {"idle", "connecting", "failed", "open"}
       /\ via[h] \in {"none", "get", "begin"}
       /\ delivered[h] \in {"none", "conn", "txn"}
       /\ released[h] \in BOOLEAN
       /\ sent[h] \in 0..MaxCalls
       /\ Len(last[h].cbs) <= 1

(* ======================= properties of the layer ======================= *)
Terminal == {"commit", "rollback"}

Failed(h, ops) == last[h].op \in ops /\ last[h].out \in Errs

Succeeded(h, ops) == last[h].op \in ops /\ last[h].out = NoErr

(* C1: on every handle, whatever the calls made on it, the pool's release  *)
(* callback is invoked at most once, _released is set exactly when it was  *)
(* invoked and is never reset, and a release on a released handle leaves   *)
(* the handle and the pool utilization as they were.                       *)
C1_ReleaseAtMostOnce ==
  /\ [](\A h \in Handles :
          /\ Len(releaseCalls[h]) <= 1
          /\ released[h] <=> releaseCalls[h] # <<>>)
  /\ [][\A h \in Handles :
          /\ released[h] =>
               released'[h] /\ releaseCalls'[h] = releaseCalls[h]
          /\ (released[h] /\ Release(h)) =>
               UNCHANGED <<utilization, released, releaseCalls>>]_vars

(* A release has acted on a handle that was released before.               *)
C1_Witness ==
  \E h \in Handles :
    last[h].op = "release" /\ last[h].was /\ Len(releaseCalls[h]) = 1

(* C2: when the raw client reports an error for a statement of query, the  *)
(* caller's callback runs once, with that error, on a released handle      *)
(* (released by query itself with dispose = true if it was not released    *)
(* before) and sees the pool utilization without this connection; a        *)
(* release the caller makes afterwards changes nothing.                    *)
C2_QueryErrorReleasesFirst ==
  /\ [](\A h \in Handles :
          Failed(h, {"query"}) =>
            /\ Len(last[h].cbs) = 1
            /\ last[h].cbs[1].err = last[h].out
            /\ last[h].cbs[1].released
            /\ Len(last[h].cbs[1].releaseCalls) = 1
            /\ ~last[h].was => last[h].cbs[1].releaseCalls = <<TRUE>>
            /\ last[h].cbs[1].net = base[h])
  /\ [][\A h \in Handles :
          (Failed(h, {"query"}) /\ Release(h)) =>
            UNCHANGED <<utilization, released, releaseCalls>>]_vars

(* A statement of query failed on a handle that was not released.          *)
C2_Witness ==
  \E h \in Handles :
    Failed(h, {"query"}) /\ ~last[h].was /\ last[h].cbs # <<>>

(* C3: when a release, commit or rollback on a checked-out handle has      *)
(* completed, the release callback has been invoked exactly once, whether  *)
(* the terminal statement or an earlier one failed or not.                 *)
C3_CheckoutReleasedExactlyOnce ==
  \A h \in Handles :
    last[h].op \in Terminal \cup {"release"} =>
      Len(last[h].releaseCalls) = 1 /\ Len(releaseCalls[h]) = 1

(* A COMMIT failed on a handle that was not released.                      *)
C3_Witness ==
  \E h \in Handles : Failed(h, {"commit"}) /\ ~last[h].was

(* C4 as stated: when COMMIT or ROLLBACK fails, the callback gets the      *)
(* error and the connection is not released.                               *)
C4_Original ==
  \A h \in Handles :
    (Failed(h, Terminal) /\ last[h].hasCb /\ ~last[h].was) =>
      /\ Len(last[h].cbs) = 1
      /\ last[h].cbs[1].err = last[h].out
      /\ ~last[h].cbs[1].released
      /\ last[h].cbs[1].releaseCalls = <<>>

(* C4: when COMMIT or ROLLBACK fails, the callback gets the error and the  *)
(* connection is already released: conn.query, which issues the terminal   *)
(* statement, has invoked the release callback with dispose = true.        *)
C4_TerminalFailureReleased ==
  \A h \in Handles :
    (Failed(h, Terminal) /\ last[h].hasCb /\ ~last[h].was) =>
      /\ Len(last[h].cbs) = 1
      /\ last[h].cbs[1].err = last[h].out
      /\ last[h].cbs[1].released
      /\ last[h].cbs[1].releaseCalls = <<TRUE>>

(* A ROLLBACK with a callback failed on a handle that was not released.    *)
C4_Witness ==
  \E h \in Handles :
    Failed(h, {"rollback"}) /\ last[h].hasCb /\ ~last[h].was

(* C5: after a commit or rollback has completed, with or without success,  *)
(* the connection handle is released: the flag is set and the release      *)
(* callback was invoked once.                                              *)
C5_TerminalCallReleases ==
  \A h \in Handles :
    last[h].op \in Terminal =>
      /\ last[h].released /\ Len(last[h].releaseCalls) = 1
      /\ released[h]

(* A ROLLBACK succeeded on a handle that was not released.                 *)
C5_Witness ==
  \E h \in Handles : Succeeded(h, {"rollback"}) /\ ~last[h].was

(* C6 as stated: when COMMIT succeeds, commit invokes the release callback *)
(* with dispose = false and then reports null.                             *)
C6_Original ==
  \A h \in Handles :
    (Succeeded(h, {"commit"}) /\ ~last[h].was) =>
      /\ last[h].releaseCalls = <<FALSE>>
      /\ last[h].hasCb =>
           /\ Len(last[h].cbs) = 1
           /\ last[h].cbs[1].err = NoErr

(* C6: when COMMIT succeeds on a handle not yet released, commit invokes   *)
(* the release callback with dispose = true and then reports null.         *)
C6_CommitDisposes ==
  \A h \in Handles :
    (Succeeded(h, {"commit"}) /\ ~last[h].was) =>
      /\ last[h].releaseCalls = <<TRUE>>
      /\ last[h].hasCb =>
           /\ Len(last[h].cbs) = 1
           /\ last[h].cbs[1].err = NoErr
           /\ last[h].cbs[1].releaseCalls = <<TRUE>>

(* A COMMIT with a callback succeeded on a handle that was not released.   *)
C6_Witness ==
  \E h \in Handles :
    Succeeded(h, {"commit"}) /\ last[h].hasCb /\ ~last[h].was

(* C7: after begin, the callback of a successful commit or rollback runs   *)
(* on a released connection and sees the pool utilization (net of other    *)
(* handles) that held before begin; while the transaction is open, and in  *)
(* the callback of begin, it is one higher.                                *)
C7_ReleasedBeforeCallback ==
  \A h \in Handles :
    /\ (Succeeded(h, Terminal) /\ last[h].hasCb) =>
         /\ Len(last[h].cbs) = 1
         /\ last[h].cbs[1].released
         /\ last[h].cbs[1].net = base[h]
    /\ Succeeded(h, {"begin"}) =>
         /\ Len(last[h].cbs) = 1
         /\ last[h].cbs[1].net = base[h] + 1
    /\ (delivered[h] = "txn" /\ ~released[h]) =>
         utilization - OthersHeld(h) = base[h] + 1

(* A COMMIT with a callback succeeded while another handle held a          *)
(* connection.                                                             *)
C7_Witness ==
  \E h \in Handles :
    /\ Succeeded(h, {"commit"}) /\ last[h].hasCb /\ ~last[h].was
    /\ OthersHeld(h) > 0

(* C8: the pool utilization is the number of handles checked out whose     *)
(* release callback has not been invoked; after get and release it is,     *)
(* net of the other handles, what it was before get; a step on one         *)
(* handle leaves the release state of every other handle alone.            *)
C8_UtilizationCountsHeld ==
  /\ [](/\ utilization = Cardinality({h \in Handles : Held(h)})
        /\ \A h \in Handles :
             (last[h].op = "release" /\ via[h] = "get") =>
               utilization - OthersHeld(h) = base[h])
  /\ [][\A h \in Handles :
          Step(h) =>
            \A g \in Handles \ {h} :
              /\ released'[g] = released[g]
              /\ releaseCalls'[g] = releaseCalls[g]]_vars

(* A handle from get was released while another handle held a connection.  *)
C8_Witness ==
  \E h \in Handles :
    /\ last[h].op = "release" /\ via[h] = "get" /\ ~last[h].was
    /\ OthersHeld(h) > 0

(* C9: when BEGIN fails after a successful checkout, the callback of begin *)
(* gets the raw client's error and no transaction, the connection is       *)
(* already released with dispose = true and the pool utilization is what   *)
(* it was before begin; a transaction handle is handed out only by the     *)
(* continuation of a successful BEGIN on a checked-out connection.         *)
C9_BeginFailure ==
  /\ [](\A h \in Handles :
          /\ Failed(h, {"begin"}) =>
               /\ Len(last[h].cbs) = 1
               /\ last[h].cbs[1].err = last[h].out
               /\ last[h].cbs[1].val = "none"
               /\ last[h].cbs[1].released
               /\ last[h].cbs[1].releaseCalls = <<TRUE>>
               /\ last[h].cbs[1].net = base[h]
               /\ delivered[h] = "none"
          /\ \A i \in 1..Len(last[h].cbs) :
               last[h].cbs[i].val = "txn" =>
                 Succeeded(h, {"begin"}) /\ phase[h] = "open"
          /\ delivered[h] = "txn" => phase[h] = "open" /\ via[h] = "begin")
  /\ [][\A h \in Handles :
          (delivered'[h] = "txn" /\ delivered[h] # "txn") =>
            /\ last'[h].op = "begin" /\ last'[h].out = NoErr
            /\ phase[h] = "open"]_vars

(* BEGIN failed on a checked-out connection.                               *)
C9_Witness ==
  \E h \in Handles : Failed(h, {"begin"}) /\ phase[h] = "open"

(* C10: when the checkout fails, the callback of get or begin gets the     *)
(* pool's error and no handle, the release callback is never invoked, and  *)
(* no statement (so no BEGIN) is ever handed to a raw client.              *)
C10_CheckoutFailure ==
  \A h \in Handles :
    phase[h] = "failed" =>
      /\ last[h].op \in {"get", "begin.get"}
      /\ last[h].out \in Errs
      /\ Len(last[h].cbs) = 1
      /\ last[h].cbs[1].err = last[h].out
      /\ last[h].cbs[1].val = "none"
      /\ releaseCalls[h] = <<>> /\ ~released[h]
      /\ sent[h] = 0 /\ pending[h] = <<>>
      /\ delivered[h] = "none"

(* The checkout of a begin failed.                                         *)
C10_Witness ==
  \E h \in Handles : phase[h] = "failed" /\ via[h] = "begin"


(* C11: a statement of query that succeeds hands its result to the         *)
(* caller's callback and leaves the handle as it was: the released flag,   *)
(* the release callback and the pool utilization are unchanged. The        *)
(* release callback is invoked only by a step whose statement failed, by   *)
(* the continuation of a commit or rollback, or by an explicit release.    *)
C11_SuccessfulQueryKeepsHandle ==
  /\ [](\A h \in Handles :
          Succeeded(h, {"query"}) =>
            /\ Len(last[h].cbs) = 1
            /\ last[h].cbs[1].err = NoErr
            /\ last[h].cbs[1].val = "res"
            /\ last[h].cbs[1].released = last[h].was
            /\ last[h].released = last[h].was)
  /\ [][\A h \in Handles :
          /\ (ClientCb(h) /\ last'[h].op = "query" /\ last'[h].out = NoErr) =>
               UNCHANGED <<utilization, released, releaseCalls>>
          /\ releaseCalls'[h] # releaseCalls[h] =>
               \/ last'[h].op = "release"
               \/ last'[h].op \in Terminal
               \/ last'[h].out \in Errs]_vars

(* A statement of query succeeded on an open transaction.                  *)
C11_Witness ==
  \E h \in Handles :
    /\ Succeeded(h, {"query"}) /\ ~last[h].was
    /\ delivered[h] = "txn" /\ ~released[h]

(* A successful SELECT by g whose rows the caller's callback was given.    *)
Read(g) ==
  /\ Succeeded(g, {"query"}) /\ last[g].sql = "SELECT"
  /\ last[g].cbs # <<>>

(* The continuation of a SELECT of g runs in this step and succeeds.       *)
Reads(g) ==
  /\ ClientCb(g)
  /\ last'[g].op = "query" /\ last'[g].sql = "SELECT"
  /\ last'[g].out = NoErr /\ last'[g].cbs # <<>>

(* C12: while the caller has called neither commit nor rollback on a       *)
(* transaction, the row the transaction wrote is not among the rows every  *)
(* session reads and no SELECT through another handle has returned it,     *)
(* whichever transaction began first; a SELECT of another handle never     *)
(* returns a row that is uncommitted when it runs.                         *)
C12_UncommittedInvisible ==
  /\ [](\A h \in Handles :
          (via[h] = "begin" /\ asked[h] = {}) =>
            /\ h \notin SeenByAll
            /\ \A g \in Handles \ {h} :
                 Read(g) => h \notin last[g].cbs[1].rows)
  /\ [][\A h \in Handles : \A g \in Handles \ {h} :
          (rows[h] = "local" /\ Reads(g)) =>
            h \notin last'[g].cbs[1].rows]_vars

(* A transaction read its own uncommitted row while another transaction    *)
(* held an uncommitted row of its own.                                     *)
C12_Witness ==
  \E h \in Handles : \E g \in Handles \ {h} :
    /\ via[h] = "begin" /\ via[g] = "begin"
    /\ asked[h] = {} /\ asked[g] = {}
    /\ rows[h] = "local" /\ rows[g] = "local"
    /\ Read(g) /\ last[g].cbs[1].rows = {g}

(* C13: when the COMMIT of a transaction that wrote a row succeeds, the    *)
(* row is committed when the callback of commit runs, stays committed, and *)
(* every later successful SELECT of another live session returns it.       *)
C13_CommitMakesVisible ==
  /\ [](\A h \in Handles :
          (Succeeded(h, {"commit"}) /\ last[h].sessWas = "txn"
             /\ last[h].rowWas = "local") =>
            rows[h] = "committed" /\ h \in SeenByAll)
  /\ [][\A h \in Handles :
          rows[h] = "committed" =>
            /\ rows'[h] = "committed"
            /\ \A g \in Handles \ {h} :
                 (Reads(g) /\ sess[g] \in {"idle", "txn"}) =>
                   h \in last'[g].cbs[1].rows]_vars

(* Another handle read the row of a transaction after its commit.          *)
C13_Witness ==
  \E h \in Handles : \E g \in Handles \ {h} :
    /\ via[h] = "begin" /\ Succeeded(h, {"commit"})
    /\ last[h].rowWas = "local"
    /\ Read(g) /\ h \in last[g].cbs[1].rows

(* C14: when the ROLLBACK of a transaction that wrote a row succeeds, the  *)
(* row is discarded; an uncommitted or discarded row is returned by no     *)
(* SELECT of another handle, and an uncommitted row becomes committed only *)
(* by the COMMIT of commit.                                                *)
C14_RollbackDiscards ==
  /\ [](\A h \in Handles :
          (Succeeded(h, {"rollback"}) /\ last[h].rowWas = "local") =>
            rows[h] = "discarded" /\ h \notin SeenByAll)
  /\ [][\A h \in Handles :
          /\ (rows[h] = "local" /\ rows'[h] = "committed") =>
               ClientCb(h) /\ last'[h].op = "commit"
          /\ rows[h] \in {"local", "discarded"} =>
               \A g \in Handles \ {h} :
                 Reads(g) => h \notin last'[g].cbs[1].rows]_vars

(* Another handle read after the rollback of a transaction that had        *)
(* written a row.                                                          *)
C14_Witness ==
  \E h \in Handles : \E g \in Handles \ {h} :
    /\ via[h] = "begin" /\ Succeeded(h, {"rollback"})
    /\ last[h].rowWas = "local" /\ rows[h] = "discarded"
    /\ Read(g) /\ h \notin last[g].cbs[1].rows

(* C15: when a statement fails inside an open transaction, query disposes  *)
(* of the connection before the callback runs, the callback sees the pool  *)
(* utilization that held before begin, the handle sends no statement of    *)
(* its own (no ROLLBACK), and the row the transaction wrote is discarded.  *)
C15_FailedStatementAborts ==
  /\ [](\A h \in Handles :
          (Failed(h, {"query"}) /\ via[h] = "begin" /\ ~last[h].was
             /\ last[h].sessWas = "txn") =>
            /\ Len(last[h].cbs) = 1
            /\ last[h].cbs[1].releaseCalls = <<TRUE>>
            /\ last[h].cbs[1].net = base[h]
            /\ sess[h] = "closed"
            /\ rows[h] \in {"none", "discarded"}
            /\ h \notin SeenByAll)
  /\ [][\A h \in Handles :
          (ClientCb(h) /\ last'[h].op = "query" /\ last'[h].out \in Errs) =>
            sent'[h] = sent[h] /\ pending'[h] = Tail(pending[h])]_vars

(* A statement failed in an open transaction that had written a row.       *)
C15_Witness ==
  \E h \in Handles :
    /\ Failed(h, {"query"}) /\ via[h] = "begin" /\ ~last[h].was
    /\ last[h].sessWas = "txn" /\ last[h].rowWas = "local"
    /\ rows[h] = "discarded"

(* The override read as the claim reads it: a numeral of decimal digits    *)
(* with a positive value counts, everything else gives the default.        *)
IsNumeral(v) == v # <<>> /\ \A i \in 1..Len(v) : DigitVal(v[i]) >= 0

RECURSIVE Decimal(_)
Decimal(v) ==
  IF v = <<>> THEN 0
  ELSE 10 * Decimal(SubSeq(v, 1, Len(v) - 1)) + DigitVal(v[Len(v)])

Effective(v) ==
  IF IsNumeral(v) /\ Decimal(v) > 0 THEN Decimal(v)
  ELSE DEFAULT_CONNECTION_POOL_SIZE

(* C16 as stated: the pool size computed from the override is the          *)
(* override's value when the override is a positive integer and 100 for    *)
(* every other override, text that is not a number included; get applies   *)
(* that size.                                                              *)
C16_Original ==
  [][\A h \in Handles :
       (Get(h) \/ Begin(h)) => poolSize' = Effective(env)]_vars

(* C17: every get and begin reads the override as it is at the call, sets  *)
(* the pool size from it and requests the checkout with that size in       *)
(* effect; nothing is kept from earlier calls, and a call under an         *)
(* unchanged override leaves the pool size as it is.                       *)
C17_PoolSizeSetPerGet ==
  [][\A h \in Handles :
       (Get(h) \/ Begin(h)) =>
         /\ poolSize' = getPoolSize(env)
         /\ reqSize'[h] = getPoolSize(env)
         /\ (poolSize = getPoolSize(env)) => (poolSize' = poolSize)]_vars

(* Two checkouts were requested under different overrides, the second      *)
(* with the new size.                                                      *)
C17_Witness ==
  \E h \in Handles : \E g \in Handles :
    /\ h < g /\ phase[h] # "idle" /\ phase[g] # "idle"
    /\ reqSize[h] # reqSize[g] /\ poolSize = reqSize[g]
    /\ reqSize[g] = getPoolSize(env)

(* The completed step on h is one whose caller gave a callback.            *)
Expects(h) ==
  \/ last[h].op \in {"get", "begin", "query"}
  \/ last[h].op = "begin.get" /\ last[h].out \in Errs
  \/ last[h].op \in Terminal /\ last[h].hasCb

(* C18 as stated: whether the Metrics sink throws or not, no step throws,  *)
(* every step whose caller gave a callback runs it once with the outcome   *)
(* of the pool or the raw client, and the handle ends released exactly     *)
(* when it does with a working sink: after a release, a failed statement   *)
(* and a successful commit or rollback.                                    *)
C18_Original ==
  \A h \in Handles :
    /\ ~last[h].thrown
    /\ Expects(h) =>
         /\ Len(last[h].cbs) = 1
         /\ last[h].cbs[1].err = last[h].out
    /\ (\/ last[h].op = "release"
        \/ Failed(h, {"begin", "query"} \cup Terminal)
        \/ Succeeded(h, Terminal)) =>
         last[h].released /\ Len(last[h].releaseCalls) = 1

(* C19: when the pool or the raw client reports an error for a checkout,   *)
(* BEGIN, COMMIT, ROLLBACK or statement whose caller gave a callback, the  *)
(* continuation runs that callback once, with that error and no result,    *)
(* and throws nothing.                                                     *)
C19_ErrorsDelivered ==
  \A h \in Handles :
    (last[h].out \in Errs /\ last[h].hasCb) =>
      /\ ~last[h].thrown
      /\ Len(last[h].cbs) = 1
      /\ last[h].cbs[1].err = last[h].out
      /\ last[h].cbs[1].val = "none"

(* A checkout of begin and the COMMIT of another transaction failed with   *)
(* different errors.                                                       *)
C19_Witness ==
  \E h \in Handles : \E g \in Handles \ {h} :
    /\ Failed(h, {"begin.get"}) /\ Failed(g, {"commit"}) /\ last[g].hasCb
    /\ last[h].out # last[g].out

(* C20: on a transaction on which the caller has called both commit and    *)
(* rollback the release callback is invoked at most once, and exactly once *)
(* when both statements have completed; commit and rollback stay enabled   *)
(* on a released transaction and each call hands its statement to the raw  *)
(* client; the continuation of a terminal statement on a released handle   *)
(* changes neither the released flag, the release calls nor the pool.      *)
C20_CommitAndRollback ==
  /\ [](\A h \in Handles :
          /\ asked[h] = Terminal => Len(releaseCalls[h]) <= 1
          /\ (asked[h] = Terminal /\ pending[h] = <<>>) =>
               /\ Len(releaseCalls[h]) = 1 /\ released[h]
               /\ last[h].op \in Terminal => last[h].was
          /\ (delivered[h] = "txn" /\ calls < MaxCalls) =>
               ENABLED Commit(h) /\ ENABLED Rollback(h))
  /\ [][\A h \in Handles :
          /\ (asked[h] # {} /\ (Commit(h) \/ Rollback(h))) =>
               /\ sent'[h] = sent[h] + 1
               /\ Len(pending'[h]) = Len(pending[h]) + 1
          /\ (released[h] /\ ClientCb(h) /\ last'[h].op \in Terminal) =>
               UNCHANGED <<utilization, released, releaseCalls>>]_vars

(* A ROLLBACK called after commit succeeded on the released handle.        *)
C20_Witness ==
  \E h \in Handles :
    /\ asked[h] = Terminal /\ pending[h] = <<>>
    /\ Succeeded(h, {"rollback"}) /\ last[h].was
    /\ releaseCalls[h] = <<TRUE>>

(* The invocations of the release callback the completed step on h made.   *)
Did(h) ==
  SubSeq(last[h].releaseCalls, last[h].relWas + 1, Len(last[h].releaseCalls))

(* What the caller of a completed statement of query can observe: what     *)
(* the raw client was sent, what the callback was given and found on the   *)
(* handle, and what the step did to the handle.                            *)
Seen(h) ==
  [sql |-> last[h].sql, values |-> last[h].values,
   cbs |-> [i \in 1..Len(last[h].cbs) |->
              [err |-> last[h].cbs[i].err, val |-> last[h].cbs[i].val,
               released |-> last[h].cbs[i].released,
               releases |-> Len(last[h].cbs[i].releaseCalls)]],
   released |-> last[h].released, did |-> Did(h)]

(* C21: a statement sent with txn.query reaches the raw client as          *)
(* conn.query would send it, statement and values; and a statement of      *)
(* txn.query and one of conn.query called with the same arguments, on      *)
(* handles in the same release state, that get the same outcome give their *)
(* callers the same result or error and leave the same release state:      *)
(* disposed on an error, untouched on success.                             *)
C21_TxnQueryAsConnQuery ==
  /\ \A h \in Handles : \A i \in 1..Len(pending[h]) :
       pending[h][i].op = "query" =>
         /\ pending[h][i].sql = connQuery(pending[h][i].call).sql
         /\ pending[h][i].values = connQuery(pending[h][i].call).values
  /\ \A h \in Handles : \A g \in Handles :
       (/\ delivered[h] = "txn" /\ delivered[g] = "conn"
        /\ last[h].op = "query" /\ last[g].op = "query"
        /\ last[h].call = last[g].call /\ last[h].out = last[g].out
        /\ last[h].was = last[g].was) =>
         Seen(h) = Seen(g)
  /\ \A h \in Handles :
       (delivered[h] = "txn" /\ last[h].op = "query") =>
         Did(h) = IF last[h].out \in Errs /\ ~last[h].was THEN <<TRUE>>
                  ELSE <<>>

(* A statement with values failed with the same error through a            *)
(* transaction and through a connection.                                   *)
C21_Witness ==
  \E h \in Handles : \E g \in Handles :
    /\ delivered[h] = "txn" /\ delivered[g] = "conn"
    /\ Failed(h, {"query"}) /\ Failed(g, {"query"})
    /\ last[h].out = last[g].out /\ ~last[h].was /\ ~last[g].was
    /\ last[h].call = last[g].call /\ Len(last[h].call) = 2
    /\ last[h].values \in Params

(* What a completed commit or rollback did to the handle and gave to the   *)
(* caller's callback.                                                      *)
Handled(h) ==
  [cbs |-> Seen(h).cbs, released |-> last[h].released, did |-> Did(h)]

(* The key of rollback that stands where commit has the key k.             *)
RollbackKey(k) ==
  CASE k = "db.txn.commit.success" -> "db.txn.rollback.success"
    [] k = "db.txn.commit.error" -> "db.txn.rollback.error"
    [] OTHER -> k

(* A commit on h and a rollback on g completed with the same outcome, on   *)
(* handles in the same release state, both with or both without callback.  *)
SameTerminal(h, g) ==
  /\ last[h].op = "commit" /\ last[g].op = "rollback"
  /\ last[h].out = last[g].out /\ last[h].hasCb = last[g].hasCb
  /\ last[h].was = last[g].was

(* C22 as stated: for the same outcome commit and rollback invoke the      *)
(* release callback alike, leave the same released flag, give the callback *)
(* the same argument and emit the same metric keys.                        *)
C22_Original ==
  \A h \in Handles : \A g \in Handles :
    SameTerminal(h, g) =>
      Handled(h) = Handled(g) /\ last[h].metrics = last[g].metrics

(* C22: for the same outcome commit and rollback invoke the release        *)
(* callback alike (same dispose flag), leave the same released flag and    *)
(* give the callback the same argument; the metric keys of rollback are    *)
(* those of commit with rollback in the place of commit; the continuations *)
(* of the two agree so on every transaction handle and every outcome.      *)
C22_RollbackAsCommit ==
  /\ \A h \in Handles : \A g \in Handles :
       SameTerminal(h, g) =>
         /\ Handled(h) = Handled(g)
         /\ {RollbackKey(k) : k \in last[h].metrics} = last[g].metrics
  /\ \A h \in Handles : \A out \in Outcomes : \A hasCb \in BOOLEAN :
       delivered[h] = "txn" =>
         LET s == queryCb(St(h), out)
             c == commitCb(s, s.arg.err, hasCb)
             r == rollbackCb(s, s.arg.err, hasCb)
         IN /\ c.released = r.released
            /\ c.releaseCalls = r.releaseCalls
            /\ c.util = r.util
            /\ c.cbs = r.cbs
            /\ {RollbackKey(k) : k \in c.metrics} = r.metrics

(* A COMMIT and a ROLLBACK with callbacks succeeded on two transactions    *)
(* that were not released.                                                 *)
C22_Witness ==
  \E h \in Handles : \E g \in Handles :
    /\ SameTerminal(h, g) /\ last[h].out = NoErr
    /\ last[h].hasCb /\ ~last[h].was
    /\ last[h].releaseCalls = <<TRUE>> /\ last[g].releaseCalls = <<TRUE>>
    /\ "db.txn.rollback.success" \in last[g].metrics

(* The BEGIN statements of h the raw client has not answered yet.          *)
BeginsPending(h) ==
  Cardinality({i \in 1..Len(pending[h]) : pending[h][i].sql = "BEGIN"})

(* C23: a call of get or begin requests one checkout and sends nothing;    *)
(* the continuation of the checkout requests no other checkout, and sends  *)
(* one BEGIN for begin after a successful checkout and nothing otherwise;  *)
(* a call of query, commit or rollback hands one statement to the raw      *)
(* client; the continuation of a statement, failed or not, and a release   *)
(* send no statement and request no checkout.                              *)
C23_NoRetry ==
  /\ [](\A h \in Handles :
          /\ phase[h] = "failed" => sent[h] = 0 /\ pending[h] = <<>>
          /\ phase[h] \in {"idle", "connecting"} => sent[h] = 0
          /\ BeginsPending(h) <= (IF via[h] = "begin" THEN 1 ELSE 0))
  /\ [][\A h \in Handles :
          /\ (Get(h) \/ Begin(h)) =>
               /\ phase[h] = "idle" /\ phase'[h] = "connecting"
               /\ sent' = sent /\ pending' = pending
          /\ ConnectCb(h) =>
               /\ phase'[h] \in {"open", "failed"}
               /\ pending'[h] =
                    IF via[h] = "begin" /\ phase'[h] = "open"
                    THEN Entries(<<"BEGIN">>, "begin") ELSE <<>>
               /\ sent'[h] = Len(pending'[h])
          /\ (Query(h) \/ Commit(h) \/ Rollback(h)) =>
               /\ sent'[h] = sent[h] + 1
               /\ Len(pending'[h]) = Len(pending[h]) + 1
               /\ phase' = phase
          /\ (ClientCb(h) \/ Release(h)) =>
               /\ sent'[h] = sent[h]
               /\ \/ pending'[h] = pending[h]
                  \/ /\ pending[h] # <<>>
                     /\ pending'[h] = Tail(pending[h])
               /\ phase' = phase]_vars

(* A statement failed in a transaction and the checkout of another get     *)
(* failed; nothing is left to be answered.                                 *)
C23_Witness ==
  \E h \in Handles : \E g \in Handles :
    /\ via[h] = "begin" /\ Failed(h, {"query"})
    /\ sent[h] = 2 /\ pending[h] = <<>>
    /\ phase[g] = "failed" /\ sent[g] = 0

(* The callbacks the layer has yet to run on h: that of a checkout in      *)
(* flight and those of the statements the raw client has not answered.     *)
Outstanding(h) ==
  (IF phase[h] = "connecting" THEN 1 ELSE 0)
    + Cardinality({i \in 1..Len(pending[h]) : pending[h][i].hasCb})

(* C24: the callbacks run so far on a handle are those of the calls that   *)
(* were given one, less one for each checkout and statement not answered   *)
(* yet: when the pool and the raw client have answered, every such call    *)
(* has had its callback run exactly once. The continuation of a checkout   *)
(* of get, of a failed checkout of begin, of BEGIN, of a statement and of   *)
(* a COMMIT or ROLLBACK with a callback runs the callback once, on success *)
(* and on error; without a callback commit and rollback still hand their   *)
(* statement to the raw client and release on success.                     *)
C24_CallbackOnce ==
  /\ [](\A h \in Handles :
          /\ owed[h] = Outstanding(h)
          /\ last[h].op # "none" =>
               Len(last[h].cbs) = (IF Expects(h) THEN 1 ELSE 0)
          /\ (Succeeded(h, Terminal) /\ ~last[h].hasCb) =>
               last[h].released /\ Len(last[h].releaseCalls) = 1)
  /\ [][\A h \in Handles :
          (Commit(h) \/ Rollback(h)) =>
            /\ Len(pending'[h]) = Len(pending[h]) + 1
            /\ pending'[h][Len(pending'[h])].sql \in {"COMMIT", "ROLLBACK"}]_vars

(* A COMMIT without a callback succeeded on a handle that was not          *)
(* released, after the callback of begin had run; no callback is owed.     *)
C24_Witness ==
  \E h \in Handles :
    /\ Succeeded(h, {"commit"}) /\ ~last[h].hasCb /\ ~last[h].was
    /\ last[h].cbs = <<>> /\ releaseCalls[h] = <<TRUE>>
    /\ owed[h] = 0 /\ pending[h] = <<>>

====
